---- MODULE Spec2Model ----
(***************************************************************************)
(* Model of the Arduino hashmap (src/hashmap.h, src/hashmap.cpp): an       *)
(* open-addressing hash table with linear probing, growth by doubling and  *)
(* a lazily rebuilt array of keys.                                         *)
(*                                                                         *)
(* Pointers are modelled as small integers.  A key pointer p > 0 points to *)
(* the '\0'-terminated string KeyPool[p] (a sequence of byte codes) in the *)
(* caller's memory; a value pointer is opaque.  0 is the NULL pointer.     *)
(* Bucket indices run from 0 as in the code.                               *)
(***************************************************************************)
EXTENDS Integers, Sequences, FiniteSets, TLC

\* ------------------------------------------------------------ bounds
\* Number of distinct key pointers the caller uses.
NumKeys == 2
\* Number of distinct value pointers the caller uses.
NumValues == 2
\* Number of buckets the heap can hold in one array: calloc of more fails.
HeapSlots == 4
\* Largest max_size the caller passes to hashmap_new (0 asks for the default):
\* small enough for the table to grow once within the heap.
MaxInitSize == HeapSlots \div 2
\* Number of calls the caller makes on the table after hashmap_new.
MaxCalls == 4

\* ------------------------------------------------------------ constants
HASHMAP_DEFAULT_SIZE == 16
HASHMAP_OK == 0
HASHMAP_ERR == -1
HASHMAP_FULL == -2
HASHMAP_EMPTY == -3
HASHMAP_NOT_FOUND == -4

NULL == 0

\* The caller's strings: "c", "d", "a", "ab", "b", "e".
KeyPool == << <<99>>, <<100>>, <<97>>, <<97, 98>>, <<98>>, <<101>> >>
Keys == 1..NumKeys
Values == 1..NumValues

\* ------------------------------------------------------------ uint32_t
\* A uint32_t is kept as its two 16-bit halves [hi, lo]: every intermediate
\* result stays below 2^31 and the arithmetic wraps modulo 2^32 as in C.
RECURSIVE Pow2(_)
Pow2(n) == IF n = 0 THEN 1 ELSE 2 * Pow2(n - 1)

Half == Pow2(16)

RECURSIVE XorHalf(_, _, _)
XorHalf(a, b, bits) ==
    IF bits = 0 THEN 0
    ELSE (((a % 2) + (b % 2)) % 2) + 2 * XorHalf(a \div 2, b \div 2, bits - 1)

U32(hi, lo) == [hi |-> hi, lo |-> lo]

U32Add(a, b) ==
    LET lo == a.lo + b.lo
    IN  U32((a.hi + b.hi + (lo \div Half)) % Half, lo % Half)

\* a << n, for 0 < n < 16
U32Shl(a, n) ==
    LET lo == a.lo * Pow2(n)
    IN  U32((a.hi * Pow2(n) + (lo \div Half)) % Half, lo % Half)

\* a >> n, for 0 < n < 16
U32Shr(a, n) ==
    U32(a.hi \div Pow2(n), (a.lo \div Pow2(n)) + (a.hi % Pow2(n)) * Pow2(16 - n))

U32Xor(a, b) == U32(XorHalf(a.hi, b.hi, 16), XorHalf(a.lo, b.lo, 16))

\* a % m, for 0 < m <= 2^15
U32Mod(a, m) == ((a.hi % m) * (Half % m) + (a.lo % m)) % m

\* ------------------------------------------------------------ strategies
\* strcmp: the sign of the first difference of two strings.
RECURSIVE strcmp(_, _)
strcmp(s1, s2) ==
    IF s1 = <<>> /\ s2 = <<>> THEN 0
    ELSE IF s1 = <<>> THEN -1
    ELSE IF s2 = <<>> THEN 1
    ELSE IF Head(s1) < Head(s2) THEN -1
    ELSE IF Head(s1) > Head(s2) THEN 1
    ELSE strcmp(Tail(s1), Tail(s2))

\* hashmap_key_compare_str on two non-NULL key pointers.
hashmap_key_compare_str(key1, key2) == strcmp(KeyPool[key1], KeyPool[key2])

\* One round of the one-at-a-time loop for byte c.
OneAtATimeStep(hash, c) ==
    LET h1 == U32Add(hash, U32(0, c))
        h2 == U32Add(h1, U32Shl(h1, 10))
    IN  U32Xor(h2, U32Shr(h2, 6))

RECURSIVE OneAtATimeLoop(_, _)
OneAtATimeLoop(hash, s) ==
    IF s = <<>> THEN hash
    ELSE OneAtATimeLoop(OneAtATimeStep(hash, Head(s)), Tail(s))

OneAtATimeFinal(hash) ==
    LET h1 == U32Add(hash, U32Shl(hash, 3))
        h2 == U32Xor(h1, U32Shr(h1, 11))
    IN  U32Add(h2, U32Shl(h2, 15))

\* hashmap_key_hash_str on a non-NULL key pointer.
hashmap_key_hash_str(key) == OneAtATimeFinal(OneAtATimeLoop(U32(0, 0), KeyPool[key]))

\* The hash of every key the caller uses, computed once.
KeyHash == [k \in 1..Len(KeyPool) |-> hashmap_key_hash_str(k)]

\* ------------------------------------------------------------ memory
\* calloc/realloc of n array elements: ok is the allocator's answer when the
\* request fits; a request larger than the heap always fails.
Calloc(n, ok) == ok /\ n <= HeapSlots

\* A zero-filled bucket, as calloc returns it.
ZeroBucket == [_key |-> NULL, _value |-> NULL, _in_use |-> 0]

ZeroBuckets(n) == [i \in 0..(n - 1) |-> ZeroBucket]

\* The content of an array element that was allocated and never written:
\* an indeterminate pointer, which may hold any bit pattern.
Indeterminate == 0 - 1

\* The struct behind a handle for which no table exists (hashmap_new failed).
NoMap ==
    [_buckets |-> <<>>, _keys |-> <<>>, _max_size |-> 0, _cur_size |-> 0,
     _changed |-> 0]

\* ------------------------------------------------------------ hashmap_new
\* The struct hashmap_new returns, or NoMap when an allocation fails.
\* _keys is a sequence (element j of the code is element j + 1 here) and the
\* NULL array is <<>>; an allocated array always has at least one element.
hashmap_new(max_size, map_ok, buckets_ok) ==
    LET size == IF max_size <= 0 THEN HASHMAP_DEFAULT_SIZE ELSE max_size
    IN  IF ~map_ok \/ ~Calloc(size, buckets_ok)
        THEN [handle |-> "null", map |-> NoMap]
        ELSE [handle |-> "live",
              map |-> [_buckets |-> ZeroBuckets(size), _keys |-> <<>>,
                       _max_size |-> size, _cur_size |-> 0, _changed |-> 1]]

\* ------------------------------------------------------------ hashmap_hash
\* Mutant: the seek loop without its "bucket used, same key" test.
RECURSIVE hashmap_hash_seek_unused_only(_, _, _, _)
hashmap_hash_seek_unused_only(m, key, cur_index, i) ==
    IF i >= m._max_size THEN HASHMAP_FULL
    ELSE IF m._buckets[cur_index]._in_use = 0 THEN cur_index
    ELSE hashmap_hash_seek_unused_only(m, key, (cur_index + 1) % m._max_size, i + 1)

RECURSIVE hashmap_hash_seek(_, _, _, _)
hashmap_hash_seek(m, key, cur_index, i) ==
    IF i >= m._max_size THEN HASHMAP_FULL
    ELSE IF m._buckets[cur_index]._in_use = 0 THEN cur_index
    ELSE IF hashmap_key_compare_str(m._buckets[cur_index]._key, key) = 0
            /\ m._buckets[cur_index]._in_use = 1 THEN cur_index
    ELSE hashmap_hash_seek(m, key, (cur_index + 1) % m._max_size, i + 1)

\* The buckets whose key hashmap_hash passes to compare, in probe order: the
\* seek loop tests _in_use = 0 first and returns, so it compares only the
\* keys of buckets in use.
RECURSIVE hashmap_hash_compared(_, _, _, _)
hashmap_hash_compared(m, key, cur_index, i) ==
    IF i >= m._max_size THEN <<>>
    ELSE IF m._buckets[cur_index]._in_use = 0 THEN <<>>
    ELSE IF hashmap_key_compare_str(m._buckets[cur_index]._key, key) = 0
            /\ m._buckets[cur_index]._in_use = 1 THEN <<cur_index>>
    ELSE <<cur_index>> \o
         hashmap_hash_compared(m, key, (cur_index + 1) % m._max_size, i + 1)

HashCompared(m, key) ==
    IF m._cur_size = m._max_size THEN <<>>
    ELSE hashmap_hash_compared(m, key, U32Mod(KeyHash[key], m._max_size), 0)

\* Mutant: hashmap_hash without its "return if full" test.
hashmap_hash_no_full_check(m, key) ==
    hashmap_hash_seek(m, key, U32Mod(KeyHash[key], m._max_size), 0)

\* The bucket index for key, or HASHMAP_FULL.
hashmap_hash(m, key) ==
    IF m._cur_size = m._max_size THEN HASHMAP_FULL
    ELSE hashmap_hash_seek(m, key, U32Mod(KeyHash[key], m._max_size), 0)

\* ------------------------------------------------------------ hashmap_find
\* compare on the key of bucket b: strcmp dereferences both pointers, so the
\* call is undefined for the NULL key of a bucket that was never filled.  The
\* result is only used together with _in_use = 1, and a filled bucket never
\* has a NULL key.
KeyMatches(b, key) ==
    /\ b._key # NULL
    /\ hashmap_key_compare_str(b._key, key) = 0
    /\ b._in_use = 1

\* Mutant: the seek loop gives up at the first bucket that is not in use.
RECURSIVE hashmap_find_seek_stop_at_unused(_, _, _, _)
hashmap_find_seek_stop_at_unused(m, key, cur_index, i) ==
    IF i >= m._max_size THEN HASHMAP_NOT_FOUND
    ELSE IF m._buckets[cur_index]._in_use = 0 THEN HASHMAP_NOT_FOUND
    ELSE IF KeyMatches(m._buckets[cur_index], key) THEN cur_index
    ELSE hashmap_find_seek_stop_at_unused(m, key, (cur_index + 1) % m._max_size,
                                          i + 1)

RECURSIVE hashmap_find_seek(_, _, _, _)
hashmap_find_seek(m, key, cur_index, i) ==
    IF i >= m._max_size THEN HASHMAP_NOT_FOUND
    ELSE IF KeyMatches(m._buckets[cur_index], key) THEN cur_index
    ELSE hashmap_find_seek(m, key, (cur_index + 1) % m._max_size, i + 1)

\* The index of the bucket that holds key, or HASHMAP_EMPTY / HASHMAP_NOT_FOUND.
hashmap_find(m, key) ==
    IF m._cur_size = 0 THEN HASHMAP_EMPTY
    ELSE hashmap_find_seek(m, key, U32Mod(KeyHash[key], m._max_size), 0)

\* The buckets whose key hashmap_find passes to compare, in probe order.
RECURSIVE hashmap_find_compared(_, _, _, _)
hashmap_find_compared(m, key, cur_index, i) ==
    IF i >= m._max_size THEN <<>>
    ELSE IF KeyMatches(m._buckets[cur_index], key) THEN <<cur_index>>
    ELSE <<cur_index>> \o
         hashmap_find_compared(m, key, (cur_index + 1) % m._max_size, i + 1)

FindCompared(m, key) ==
    IF m._cur_size = 0 THEN <<>>
    ELSE hashmap_find_compared(m, key, U32Mod(KeyHash[key], m._max_size), 0)

\* hashmap_find hands a NULL key to strcmp: undefined behaviour.
FindDerefsNull(m, key) ==
    \E n \in 1..Len(FindCompared(m, key)) :
        m._buckets[FindCompared(m, key)[n]]._key = NULL

\* ------------------------------------------------------------ hashmap_put, hashmap_rehash
\* Both return [map, status, rehashes]: the struct afterwards, the code
\* returned and the number of calls of hashmap_rehash that allocated.
\* alloc_ok is the answer of calloc inside hashmap_rehash.
RECURSIVE hashmap_put(_, _, _, _)
RECURSIVE hashmap_rehash(_, _)
RECURSIVE hashmap_put_retry(_, _, _, _, _, _)
RECURSIVE hashmap_rehash_loop(_, _, _, _, _, _)

\* Mutant: a bucket already in use keeps its value.
hashmap_put_fill_keep_value(m, index, key, value) ==
    [m EXCEPT !._buckets[index] =
                  [_key |-> key,
                   _value |-> IF m._buckets[index]._in_use = 1
                              THEN m._buckets[index]._value ELSE value,
                   _in_use |-> 1],
              !._cur_size = m._cur_size + 1,
              !._changed = 1]

\* "fill the bucket" (lines 178-185)
hashmap_put_fill(m, index, key, value) ==
    [m EXCEPT !._buckets[index] = [_key |-> key, _value |-> value, _in_use |-> 1],
              !._cur_size = m._cur_size + 1,
              !._changed = 1]

\* the while loop of hashmap_put, entered with the index hashmap_hash returned
hashmap_put_retry(m, key, value, alloc_ok, index, rehashes) ==
    IF index = HASHMAP_FULL
    THEN LET r == hashmap_rehash(m, alloc_ok)
         IN  IF r.status = HASHMAP_OK
             THEN hashmap_put_retry(r.map, key, value, alloc_ok,
                                    hashmap_hash(r.map, key), rehashes + r.rehashes)
             ELSE [map |-> r.map, status |-> HASHMAP_FULL,
                   rehashes |-> rehashes + r.rehashes]
    ELSE [map |-> hashmap_put_fill(m, index, key, value), status |-> HASHMAP_OK,
          rehashes |-> rehashes]

hashmap_put(m, key, value, alloc_ok) ==
    hashmap_put_retry(m, key, value, alloc_ok, hashmap_hash(m, key), 0)

\* Mutant: the loop over the old array leaves out its last bucket.
RECURSIVE hashmap_rehash_loop_short(_, _, _, _, _, _)
hashmap_rehash_loop_short(m, old_buckets, old_size, i, alloc_ok, rehashes) ==
    IF i >= old_size - 1 THEN [map |-> m, status |-> HASHMAP_OK, rehashes |-> rehashes]
    ELSE IF old_buckets[i]._in_use # 0
    THEN LET r == hashmap_put(m, old_buckets[i]._key, old_buckets[i]._value, alloc_ok)
         IN  IF r.status # HASHMAP_OK
             THEN [map |-> r.map, status |-> r.status,
                   rehashes |-> rehashes + r.rehashes]
             ELSE hashmap_rehash_loop_short(r.map, old_buckets, old_size, i + 1,
                                            alloc_ok, rehashes + r.rehashes)
    ELSE hashmap_rehash_loop_short(m, old_buckets, old_size, i + 1, alloc_ok, rehashes)

\* the "rehash the elements" loop over the old array
hashmap_rehash_loop(m, old_buckets, old_size, i, alloc_ok, rehashes) ==
    IF i >= old_size THEN [map |-> m, status |-> HASHMAP_OK, rehashes |-> rehashes]
    ELSE IF old_buckets[i]._in_use # 0
    THEN LET r == hashmap_put(m, old_buckets[i]._key, old_buckets[i]._value, alloc_ok)
         IN  IF r.status # HASHMAP_OK
             THEN [map |-> r.map, status |-> r.status,
                   rehashes |-> rehashes + r.rehashes]
             ELSE hashmap_rehash_loop(r.map, old_buckets, old_size, i + 1, alloc_ok,
                                      rehashes + r.rehashes)
    ELSE hashmap_rehash_loop(m, old_buckets, old_size, i + 1, alloc_ok, rehashes)

\* Mutant: the doubled array replaces the old one and nothing is re-inserted.
hashmap_rehash_no_reinsert(m, alloc_ok) ==
    IF ~Calloc(2 * m._max_size, alloc_ok)
    THEN [map |-> m, status |-> HASHMAP_ERR, rehashes |-> 0]
    ELSE [map |-> [m EXCEPT !._buckets = ZeroBuckets(2 * m._max_size),
                            !._max_size = 2 * m._max_size,
                            !._cur_size = 0],
          status |-> HASHMAP_OK, rehashes |-> 1]

\* Mutant: _cur_size is not reset to 0 before the re-insertion.
hashmap_rehash_keep_count(m, alloc_ok) ==
    IF ~Calloc(2 * m._max_size, alloc_ok)
    THEN [map |-> m, status |-> HASHMAP_ERR, rehashes |-> 0]
    ELSE hashmap_rehash_loop(
            [m EXCEPT !._buckets = ZeroBuckets(2 * m._max_size),
                      !._max_size = 2 * m._max_size],
            m._buckets, m._max_size, 0, alloc_ok, 1)

\* Mutant: _cur_size is reset before the allocation is tested.
hashmap_rehash_reset_first(m, alloc_ok) ==
    IF ~Calloc(2 * m._max_size, alloc_ok)
    THEN [map |-> [m EXCEPT !._cur_size = 0], status |-> HASHMAP_ERR, rehashes |-> 0]
    ELSE hashmap_rehash_loop(
            [m EXCEPT !._buckets = ZeroBuckets(2 * m._max_size),
                      !._max_size = 2 * m._max_size,
                      !._cur_size = 0],
            m._buckets, m._max_size, 0, alloc_ok, 1)

hashmap_rehash(m, alloc_ok) ==
    IF ~Calloc(2 * m._max_size, alloc_ok)
    THEN [map |-> m, status |-> HASHMAP_ERR, rehashes |-> 0]
    ELSE hashmap_rehash_loop(
            [m EXCEPT !._buckets = ZeroBuckets(2 * m._max_size),
                      !._max_size = 2 * m._max_size,
                      !._cur_size = 0],
            m._buckets, m._max_size, 0, alloc_ok, 1)

\* ------------------------------------------------------------ hashmap_get
\* Mutant: the bucket found is vacated, as hashmap_remove does.
hashmap_get_vacates(m, key) ==
    LET index == hashmap_find(m, key)
    IN  IF index < 0
        THEN [map |-> m, status |-> index, wrote |-> FALSE, value |-> NULL]
        ELSE [map |-> [m EXCEPT !._buckets[index]._in_use = 0,
                                !._cur_size = m._cur_size - 1,
                                !._changed = 1],
              status |-> HASHMAP_OK, wrote |-> TRUE,
              value |-> m._buckets[index]._value]

\* [map, status, wrote, value]: the struct afterwards, the code returned,
\* whether *value was written and what was written to it.
hashmap_get(m, key) ==
    LET index == hashmap_find(m, key)
    IN  IF index < 0
        THEN [map |-> m, status |-> index, wrote |-> FALSE, value |-> NULL]
        ELSE [map |-> m, status |-> HASHMAP_OK, wrote |-> TRUE,
              value |-> m._buckets[index]._value]

\* ------------------------------------------------------------ hashmap_remove
\* [map, status, wrote, value]; has_out tells whether the caller passed a
\* non-NULL output pointer.
hashmap_remove(m, key, has_out) ==
    LET index == hashmap_find(m, key)
    IN  IF index < 0
        THEN [map |-> m, status |-> index, wrote |-> FALSE, value |-> NULL]
        ELSE [map |-> [m EXCEPT !._buckets[index]._in_use = 0,
                                !._cur_size = m._cur_size - 1,
                                !._changed = 1],
              status |-> HASHMAP_OK, wrote |-> has_out,
              value |-> IF has_out THEN m._buckets[index]._value ELSE NULL]

\* ------------------------------------------------------------ hashmap_keys
\* realloc(old, n elements): the old elements that fit are kept, the rest of
\* the new array is indeterminate.
Realloc(old, n) ==
    [j \in 1..n |-> IF j <= Len(old) THEN old[j] ELSE Indeterminate]

\* the copy loop: i scans the buckets, j counts the keys written so far
RECURSIVE hashmap_keys_copy(_, _, _, _)
hashmap_keys_copy(m, arr, i, j) ==
    IF i < m._max_size /\ j < m._cur_size
    THEN IF m._buckets[i]._in_use # 0
         THEN hashmap_keys_copy(m, [arr EXCEPT ![j + 1] = m._buckets[i]._key],
                                i + 1, j + 1)
         ELSE hashmap_keys_copy(m, arr, i + 1, j)
    ELSE arr

\* [map, status, wrote, keys, size]: *keys and *size are written on HASHMAP_OK.
hashmap_keys(m, alloc_ok) ==
    IF m._cur_size = 0
    THEN [map |-> m, status |-> HASHMAP_EMPTY, wrote |-> FALSE, keys |-> <<>>,
          size |-> 0]
    ELSE IF m._changed # 0
    THEN IF ~alloc_ok
         THEN [map |-> [m EXCEPT !._keys = <<>>], status |-> HASHMAP_ERR,
               wrote |-> FALSE, keys |-> <<>>, size |-> 0]
         ELSE LET arr == hashmap_keys_copy(m, Realloc(m._keys, m._cur_size), 0, 0)
              IN  [map |-> [m EXCEPT !._keys = arr, !._changed = 0],
                   status |-> HASHMAP_OK, wrote |-> TRUE, keys |-> arr,
                   size |-> m._cur_size]
    ELSE [map |-> m, status |-> HASHMAP_OK, wrote |-> TRUE, keys |-> m._keys,
          size |-> m._cur_size]

\* ------------------------------------------------------------ hashmap_iterate
\* fun[i] is the status the callback returns when it is invoked for bucket i
\* (a callback with state can return any sequence of statuses).  calls is the
\* sequence of <<bucket index, value passed>> of the invocations made.
\* Mutant: an early stop returns HASHMAP_ERR instead of the callback's status.
RECURSIVE hashmap_iterate_loop_err(_, _, _, _, _)
hashmap_iterate_loop_err(m, fun, check_status, i, calls) ==
    IF i >= m._max_size THEN [status |-> HASHMAP_OK, calls |-> calls]
    ELSE IF m._buckets[i]._in_use # 0
    THEN LET status == fun[i]
             made == Append(calls, <<i, m._buckets[i]._value>>)
         IN  IF check_status # 0 /\ status # HASHMAP_OK
             THEN [status |-> HASHMAP_ERR, calls |-> made]
             ELSE hashmap_iterate_loop_err(m, fun, check_status, i + 1, made)
    ELSE hashmap_iterate_loop_err(m, fun, check_status, i + 1, calls)

RECURSIVE hashmap_iterate_loop(_, _, _, _, _)
hashmap_iterate_loop(m, fun, check_status, i, calls) ==
    IF i >= m._max_size THEN [status |-> HASHMAP_OK, calls |-> calls]
    ELSE IF m._buckets[i]._in_use # 0
    THEN LET status == fun[i]
             made == Append(calls, <<i, m._buckets[i]._value>>)
         IN  IF check_status # 0 /\ status # HASHMAP_OK
             THEN [status |-> status, calls |-> made]
             ELSE hashmap_iterate_loop(m, fun, check_status, i + 1, made)
    ELSE hashmap_iterate_loop(m, fun, check_status, i + 1, calls)

\* Mutant: the scan starts at bucket 1.
hashmap_iterate_impl_from_one(m, fun, check_status) ==
    IF m._cur_size = 0 THEN [status |-> HASHMAP_OK, calls |-> <<>>]
    ELSE hashmap_iterate_loop(m, fun, check_status, 1, <<>>)

hashmap_iterate_impl(m, fun, check_status) ==
    IF m._cur_size = 0 THEN [status |-> HASHMAP_OK, calls |-> <<>>]
    ELSE hashmap_iterate_loop(m, fun, check_status, 0, <<>>)

hashmap_iterate(m, fun) == hashmap_iterate_impl(m, fun, 0)

hashmap_iterate_check_ok_status(m, fun) == hashmap_iterate_impl(m, fun, 1)

\* ------------------------------------------------------------ state
VARIABLES
    handle,     \* the caller's hashmap_ptr: "live", "null" (hashmap_new failed),
                \* "freed" (after hashmap_delete) or "crashed" (the process died)
    map,        \* the hashmap_map struct behind a live handle
    last,       \* the most recent call: its arguments and results, and what the
                \* struct was like before it (see Pre)
    init_size,  \* _max_size of the table when hashmap_new returned
    puts,       \* the hashmap_put calls since hashmap_new, while they are all
                \* puts of pairwise distinct keys whose allocations succeeded
    ncalls      \* the number of calls made since hashmap_new

vars == <<handle, map, last, init_size, puts, ncalls>>

\* The statuses a callback returns.
CbStatus == {HASHMAP_OK, HASHMAP_ERR, HASHMAP_NOT_FOUND}

Occupied(m) == {i \in DOMAIN m._buckets : m._buckets[i]._in_use # 0}

\* The buckets in use whose key compares equal to key.
Holding(m, key) ==
    {i \in Occupied(m) : hashmap_key_compare_str(m._buckets[i]._key, key) = 0}

\* What a call record keeps of the struct m the call found, for a call on key
\* (NULL for a call without a key).
Pre(m, key) ==
    [cur_size |-> m._cur_size, max_size |-> m._max_size, changed |-> m._changed,
     occupied |-> Cardinality(Occupied(m)),
     held |-> IF key = NULL THEN FALSE ELSE Holding(m, key) # {},
     value |-> IF key = NULL THEN NULL ELSE hashmap_get(m, key).value]

\* The buckets in use, in index order.
RECURSIVE OccupiedFrom(_, _)
OccupiedFrom(m, i) ==
    IF i >= m._max_size THEN <<>>
    ELSE IF m._buckets[i]._in_use # 0 THEN <<i>> \o OccupiedFrom(m, i + 1)
    ELSE OccupiedFrom(m, i + 1)

OccupiedSeq(m) == OccupiedFrom(m, 0)

\* What callback fun does on table m: the position, among the buckets in use
\* taken in index order, of the first one for which it returns a status other
\* than HASHMAP_OK (0 when there is none), and that status.
FirstBad(m, fun) ==
    LET occ == OccupiedSeq(m)
        bad == {n \in 1..Len(occ) : fun[occ[n]] # HASHMAP_OK}
    IN  IF bad = {} THEN [first |-> 0, status |-> HASHMAP_OK]
        ELSE LET n == CHOOSE x \in bad : \A y \in bad : x <= y
             IN  [first |-> n, status |-> fun[occ[n]]]

NoCall ==
    [op |-> "none", key |-> NULL, value |-> NULL, status |-> HASHMAP_OK,
     wrote |-> FALSE, out |-> NULL, keys |-> <<>>, size |-> 0,
     bad |-> [first |-> 0, status |-> HASHMAP_OK], calls |-> <<>>, rehashes |-> 0, crashed |-> FALSE, pre |-> Pre(NoMap, NULL)]

NoPuts == [pure |-> FALSE, calls |-> <<>>]

Init ==
    \E max_size \in 0..MaxInitSize, map_ok \in BOOLEAN, buckets_ok \in BOOLEAN :
        LET new == hashmap_new(max_size, map_ok, buckets_ok)
        IN  /\ handle = new.handle
            /\ map = new.map
            /\ last = NoCall
            /\ init_size = new.map._max_size
            /\ puts = [pure |-> new.handle = "live", calls |-> <<>>]
            /\ ncalls = 0

Callable ==
    /\ handle \in {"live", "null"}
    /\ ncalls < MaxCalls
    /\ ncalls' = ncalls + 1

\* A call on the NULL handle: every public function returns HASHMAP_ERR.
OnNull(op, key, value) ==
    /\ handle = "null"
    /\ last' = [NoCall EXCEPT !.op = op, !.key = key, !.value = value,
                              !.status = HASHMAP_ERR]
    /\ UNCHANGED <<handle, map, init_size, puts>>

\* The process dies inside a call (undefined behaviour took that turn).
Crash(op, key) ==
    /\ handle' = "crashed"
    /\ last' = [NoCall EXCEPT !.op = op, !.key = key, !.crashed = TRUE,
                              !.pre = Pre(map, key)]
    /\ UNCHANGED <<map, init_size, puts>>

\* hashmap_put returns a failure without having allocated: calloc failed.
AllocFailed(r) == r.status # HASHMAP_OK /\ r.rehashes = 0

PutsAfter(key, value, r) ==
    IF /\ puts.pure
       /\ Len(puts.calls) <= init_size
       /\ \A n \in 1..Len(puts.calls) :
              hashmap_key_compare_str(puts.calls[n].key, key) # 0
       /\ ~AllocFailed(r)
    THEN [puts EXCEPT !.calls = Append(puts.calls,
                          [key |-> key, value |-> value, status |-> r.status,
                           rehashes |-> r.rehashes])]
    ELSE NoPuts

Put(key, value, alloc_ok) ==
    /\ Callable
    /\ \/ OnNull("put", key, value)
       \/ /\ handle = "live"
          /\ LET r == hashmap_put(map, key, value, alloc_ok)
             IN  /\ map' = r.map
                 /\ last' = [NoCall EXCEPT !.op = "put", !.key = key, !.value = value,
                                           !.status = r.status,
                                           !.rehashes = r.rehashes,
                                           !.pre = Pre(map, key)]
                 /\ puts' = PutsAfter(key, value, r)
          /\ UNCHANGED <<handle, init_size>>

Get(key) ==
    /\ Callable
    /\ \/ OnNull("get", key, NULL)
       \/ /\ handle = "live"
          /\ \/ LET r == hashmap_get(map, key)
                IN  /\ map' = r.map
                    /\ last' = [NoCall EXCEPT !.op = "get", !.key = key,
                                              !.status = r.status, !.wrote = r.wrote,
                                              !.out = r.value, !.pre = Pre(map, key)]
                /\ UNCHANGED <<handle, init_size, puts>>
             \/ /\ FindDerefsNull(map, key)
                /\ Crash("get", key)

Remove(key, has_out) ==
    /\ Callable
    /\ \/ OnNull("remove", key, NULL)
       \/ /\ handle = "live"
          /\ \/ LET r == hashmap_remove(map, key, has_out)
                IN  /\ map' = r.map
                    /\ last' = [NoCall EXCEPT !.op = "remove", !.key = key,
                                              !.status = r.status, !.wrote = r.wrote,
                                              !.out = r.value, !.pre = Pre(map, key)]
                /\ puts' = NoPuts
                /\ UNCHANGED <<handle, init_size>>
             \/ /\ FindDerefsNull(map, key)
                /\ Crash("remove", key)

KeysOf(alloc_ok) ==
    /\ Callable
    /\ \/ OnNull("keys", NULL, NULL)
       \/ /\ handle = "live"
          /\ LET r == hashmap_keys(map, alloc_ok)
             IN  /\ map' = r.map
                 /\ last' = [NoCall EXCEPT !.op = "keys", !.status = r.status,
                                           !.wrote = r.wrote, !.keys = r.keys,
                                           !.size = r.size, !.pre = Pre(map, NULL)]
          /\ UNCHANGED <<handle, init_size, puts>>

Iterate(check_status) ==
    /\ Callable
    /\ \/ OnNull(IF check_status = 0 THEN "iterate" ELSE "iterate_check", NULL, NULL)
       \/ /\ handle = "live"
          /\ \E fun \in [Occupied(map) -> CbStatus] :
                LET r == IF check_status = 0
                         THEN hashmap_iterate(map, fun)
                         ELSE hashmap_iterate_check_ok_status(map, fun)
                IN  last' = [NoCall EXCEPT
                                !.op = IF check_status = 0 THEN "iterate"
                                       ELSE "iterate_check",
                                !.status = r.status, !.bad = FirstBad(map, fun),
                                !.calls = r.calls, !.pre = Pre(map, NULL)]
          /\ UNCHANGED <<handle, map, init_size, puts>>

\* hashmap_delete: the struct and its arrays are freed; the handle dangles.
Delete ==
    /\ Callable
    /\ handle' = IF handle = "live" THEN "freed" ELSE handle
    /\ map' = NoMap
    /\ last' = [NoCall EXCEPT !.op = "delete", !.pre = Pre(map, NULL)]
    /\ puts' = NoPuts
    /\ UNCHANGED init_size

Next ==
    \/ \E key \in Keys, value \in Values, alloc_ok \in BOOLEAN : Put(key, value, alloc_ok)
    \/ \E key \in Keys : Get(key)
    \/ \E key \in Keys, has_out \in BOOLEAN : Remove(key, has_out)
    \/ \E alloc_ok \in BOOLEAN : KeysOf(alloc_ok)
    \/ \E check_status \in {0, 1} : Iterate(check_status)
    \/ Delete

Spec == Init /\ [][Next]_vars

\* The same program called with two other keys of the pool, "a" and "ab",
\* whose probe sequences both start at bucket 0 of a table of 1 or 2 buckets
\* (and at buckets 2 and 0 of a table of 4).
KeysFromZero == {3, 4}

NextFromZero ==
    \/ \E key \in KeysFromZero, value \in Values, alloc_ok \in BOOLEAN :
            Put(key, value, alloc_ok)
    \/ \E key \in KeysFromZero : Get(key)
    \/ \E key \in KeysFromZero, has_out \in BOOLEAN : Remove(key, has_out)
    \/ \E alloc_ok \in BOOLEAN : KeysOf(alloc_ok)
    \/ \E check_status \in {0, 1} : Iterate(check_status)
    \/ Delete

SpecFromZero == Init /\ [][NextFromZero]_vars

\* ------------------------------------------------------------ properties
Live == handle = "live"

\* The last call was a hashmap_put that returned HASHMAP_OK.
PutOk == Live /\ last.op = "put" /\ last.status = HASHMAP_OK

\* hashmap_get(m, key) returns status and, when that is HASHMAP_OK, writes
\* value; no other outcome is possible (it dereferences no NULL key).
GetReturns(m, key, status, value) ==
    /\ ~FindDerefsNull(m, key)
    /\ hashmap_get(m, key).status = status
    /\ status = HASHMAP_OK =>
          hashmap_get(m, key).wrote /\ hashmap_get(m, key).value = value

\* C1: after a hashmap_put(k, v) that returned HASHMAP_OK, hashmap_get(k)
\* returns HASHMAP_OK and yields v.
C1_RoundTrip ==
    PutOk => GetReturns(map, last.key, HASHMAP_OK, last.value)

\* A put that doubled the capacity has returned HASHMAP_OK and get yields its value.
C1_Witness ==
    /\ PutOk
    /\ last.rehashes > 0
    /\ map._max_size = 2 * last.pre.max_size
    /\ hashmap_get(map, last.key).value = last.value

\* C2: after hashmap_put(k, v1) returned HASHMAP_OK, every hashmap_put(k, v2)
\* that returns HASHMAP_OK is followed by a hashmap_get(k) that yields v2.
C2_OverwriteValue ==
    PutOk =>
        \A v2 \in Values, alloc_ok \in BOOLEAN :
            LET r == hashmap_put(map, last.key, v2, alloc_ok)
            IN  r.status = HASHMAP_OK =>
                    GetReturns(r.map, last.key, HASHMAP_OK, v2)

\* A put has overwritten the different value its key had, and get yields the
\* new one.
C2_Witness ==
    /\ PutOk
    /\ last.pre.held
    /\ last.pre.value # last.value
    /\ hashmap_get(map, last.key).value = last.value

\* C3: a hashmap_put of a key that a bucket in use already holds leaves
\* _cur_size as it was.
C3_OverwriteKeepsCount ==
    (PutOk /\ last.pre.held) => map._cur_size = last.pre.cur_size

\* C4: no two buckets in use hold keys that compare equal.
C4_NoDuplicateKeys ==
    Live =>
        \A i \in Occupied(map), j \in Occupied(map) :
            i # j =>
                hashmap_key_compare_str(map._buckets[i]._key, map._buckets[j]._key) # 0

\* C5: after a hashmap_put(k, v) that returned HASHMAP_OK, hashmap_remove(k)
\* returns HASHMAP_OK and v and lowers _cur_size by one, and a hashmap_get(k)
\* after it returns HASHMAP_NOT_FOUND or HASHMAP_EMPTY.
C5_PutRemoveGet ==
    PutOk =>
        LET r == hashmap_remove(map, last.key, TRUE)
        IN  /\ r.status = HASHMAP_OK
            /\ r.value = last.value
            /\ r.map._cur_size = map._cur_size - 1
            /\ hashmap_get(r.map, last.key).status \in {HASHMAP_NOT_FOUND, HASHMAP_EMPTY}

\* C6: on a table with no bucket in use hashmap_get and hashmap_remove
\* return HASHMAP_EMPTY for every key.
C6_EmptyQueries ==
    (Live /\ Occupied(map) = {}) =>
        \A key \in Keys :
            /\ hashmap_get(map, key).status = HASHMAP_EMPTY
            /\ hashmap_remove(map, key, TRUE).status = HASHMAP_EMPTY

\* The table was created with capacity N and N + 1 puts of pairwise distinct
\* keys, all allocations succeeding, are the puts made since.
GrownByDistinctPuts == Live /\ puts.pure /\ Len(puts.calls) = init_size + 1

\* C7: N + 1 puts of pairwise distinct keys into a table created with capacity
\* N all return HASHMAP_OK, rehash at least once, and hashmap_get then returns
\* HASHMAP_OK and the value put for each of the keys.
C7_CapacityGrowth ==
    GrownByDistinctPuts =>
        /\ \A n \in 1..Len(puts.calls) : puts.calls[n].status = HASHMAP_OK
        /\ \E n \in 1..Len(puts.calls) : puts.calls[n].rehashes >= 1
        /\ map._max_size > init_size
        /\ \A n \in 1..Len(puts.calls) :
              GetReturns(map, puts.calls[n].key, HASHMAP_OK, puts.calls[n].value)

\* N + 1 distinct keys were put and the last put doubled the capacity.
C7_Witness ==
    /\ GrownByDistinctPuts
    /\ last.op = "put"
    /\ last.rehashes = 1
    /\ map._max_size = 2 * init_size
    /\ Cardinality(Occupied(map)) = init_size + 1

\* The keys of the buckets in use.
OccupiedKeys(m) == {m._buckets[i]._key : i \in Occupied(m)}

\* C8: a hashmap_keys call on a table with _cur_size > 0 (its allocation
\* succeeding) returns HASHMAP_OK, a size equal to _cur_size and to the number
\* of buckets in use, and an array of that many entries, each the key of a
\* bucket in use and no two the same.
C8_KeysSnapshot ==
    (Live /\ last.op = "keys" /\ last.pre.cur_size > 0 /\ last.status # HASHMAP_ERR) =>
        /\ last.status = HASHMAP_OK
        /\ last.size = map._cur_size
        /\ last.size = Cardinality(Occupied(map))
        /\ Len(last.keys) = last.size
        /\ \A n \in 1..Len(last.keys) : last.keys[n] \in OccupiedKeys(map)
        /\ \A n \in 1..Len(last.keys), k \in 1..Len(last.keys) :
              n # k => last.keys[n] # last.keys[k]

\* The invocations a full scan makes: one per bucket in use, in index order,
\* with the value of that bucket.
FullScan(m) ==
    [n \in 1..Len(OccupiedSeq(m)) |->
        <<OccupiedSeq(m)[n], m._buckets[OccupiedSeq(m)[n]]._value>>]

\* C9: hashmap_iterate invokes the callback once for each bucket in use, in
\* index order and with its value, for no other bucket, and returns
\* HASHMAP_OK whatever the callback returned.
C9_IterationTotal ==
    (Live /\ last.op = "iterate") =>
        /\ last.status = HASHMAP_OK
        /\ last.calls = FullScan(map)

\* hashmap_iterate has visited two buckets although the callback returned a
\* status other than HASHMAP_OK for the first.
C9_Witness ==
    /\ Live
    /\ last.op = "iterate"
    /\ last.bad.first = 1
    /\ Len(last.calls) >= 2
    /\ last.status = HASHMAP_OK

\* C10: hashmap_iterate_check_ok_status stops at the first bucket in use for
\* which the callback returns a status other than HASHMAP_OK and returns that
\* status; when there is none it visits every bucket in use and returns
\* HASHMAP_OK.
C10_EarlyStop ==
    (Live /\ last.op = "iterate_check") =>
        IF last.bad.first = 0
        THEN /\ last.status = HASHMAP_OK
             /\ last.calls = FullScan(map)
        ELSE /\ last.status = last.bad.status
             /\ last.calls = SubSeq(FullScan(map), 1, last.bad.first)

\* hashmap_iterate_check_ok_status has stopped at the first of two buckets in
\* use and returned the callback's HASHMAP_NOT_FOUND.
C10_Witness ==
    /\ Live
    /\ last.op = "iterate_check"
    /\ last.bad.first = 1
    /\ Len(OccupiedSeq(map)) >= 2
    /\ Len(last.calls) = 1
    /\ last.status = HASHMAP_NOT_FOUND

\* C11: _cur_size is never below 0 and never above _max_size, whatever calls
\* were made and whichever allocations failed.
C11_CountBounds ==
    Live => (0 <= map._cur_size /\ map._cur_size <= map._max_size)

\* A put has taken the last free count (_cur_size = _max_size) of a table that
\* an earlier call had already changed.
C11_Witness ==
    /\ PutOk
    /\ ncalls >= 2
    /\ last.pre.cur_size = last.pre.max_size - 1
    /\ map._cur_size = map._max_size

\* C12: compare is only ever called on the key of a bucket in use: neither
\* hashmap_find (get, remove) nor hashmap_hash (put) passes it the stale key
\* of a bucket that hashmap_remove vacated or the NULL key of a bucket that
\* was never filled.
C12_CompareOnlyInUse ==
    Live =>
        \A key \in Keys :
            /\ \A n \in 1..Len(FindCompared(map, key)) :
                  map._buckets[FindCompared(map, key)[n]]._in_use # 0
            /\ \A n \in 1..Len(HashCompared(map, key)) :
                  map._buckets[HashCompared(map, key)[n]]._in_use # 0

\* C13: a hashmap_put that finds the table full (_cur_size = _max_size) and
\* whose allocation of the doubled bucket array fails returns a code other
\* than HASHMAP_OK and leaves the whole struct (_buckets, _max_size,
\* _cur_size, _changed and _keys) exactly as it was.
C13_FailedGrowthUntouched ==
    (Live /\ map._cur_size = map._max_size) =>
        \A key \in Keys, value \in Values, alloc_ok \in BOOLEAN :
            ~Calloc(2 * map._max_size, alloc_ok) =>
                LET r == hashmap_put(map, key, value, alloc_ok)
                IN  /\ r.status # HASHMAP_OK
                    /\ r.map = map

\* A put on a full table that holds a key and a cached key array has failed
\* to allocate, and the struct is as a failing put leaves it.
C13_Witness ==
    /\ Live
    /\ last.op = "put"
    /\ AllocFailed(last)
    /\ last.pre.cur_size = last.pre.max_size
    /\ Occupied(map) # {}
    /\ map._keys # <<>>
    /\ map._cur_size = last.pre.cur_size
    /\ map._max_size = last.pre.max_size
    /\ map._changed = last.pre.changed
    /\ hashmap_put(map, last.key, last.value, FALSE).map = map

\* C14: a hashmap_put whose hashmap_rehash fails to allocate the doubled
\* bucket array returns the code hashmap_rehash reported, HASHMAP_ERR.
C14_RehashFailureCode ==
    (Live /\ map._cur_size = map._max_size) =>
        \A key \in Keys, value \in Values, alloc_ok \in BOOLEAN :
            ~Calloc(2 * map._max_size, alloc_ok) =>
                /\ hashmap_rehash(map, alloc_ok).status = HASHMAP_ERR
                /\ hashmap_put(map, key, value, alloc_ok).status =
                       hashmap_rehash(map, alloc_ok).status

\* The bucket at which the probe sequence of key starts.
Home(m, key) == U32Mod(KeyHash[key], m._max_size)

\* C15: for the key k of every bucket in use hashmap_get(k) returns
\* HASHMAP_OK, whichever keys of the same probe sequence were removed or put
\* again before.
C15_StoredKeysFound ==
    Live =>
        \A i \in Occupied(map) :
            /\ ~FindDerefsNull(map, map._buckets[i]._key)
            /\ hashmap_get(map, map._buckets[i]._key).status = HASHMAP_OK

\* A key sits in a bucket past the start of its probe sequence, the bucket
\* at the start was vacated by hashmap_remove, and get still finds the key.
C15_Witness ==
    /\ Live
    /\ last.op = "remove"
    /\ last.status = HASHMAP_OK
    /\ \E i \in Occupied(map) :
          LET k == map._buckets[i]._key
          IN  /\ Home(map, k) # i
              /\ map._buckets[Home(map, k)]._in_use = 0
              /\ map._buckets[Home(map, k)]._key = last.key
              /\ hashmap_get(map, k).status = HASHMAP_OK

\* Every key the callers of either specification use.
CallerKeys == Keys \cup KeysFromZero

\* HASHMAP_EMPTY and HASHMAP_NOT_FOUND both say that the key is not stored.
Absent(status) == status \in {HASHMAP_EMPTY, HASHMAP_NOT_FOUND}

\* hashmap_get(j) gives the same result on m1 and on m2: the same status
\* (the two "not stored" codes taken as one) and the same value.
SameGet(m1, m2, j) ==
    /\ \/ hashmap_get(m1, j).status = hashmap_get(m2, j).status
       \/ Absent(hashmap_get(m1, j).status) /\ Absent(hashmap_get(m2, j).status)
    /\ hashmap_get(m1, j).value = hashmap_get(m2, j).value

\* C16: a hashmap_put(k, v) or hashmap_remove(k) that returns HASHMAP_OK
\* leaves the result of hashmap_get(j) as it was for every key j that does
\* not compare equal to k, also when the put doubles the capacity.  (Stated
\* with HASHMAP_EMPTY and HASHMAP_NOT_FOUND as one result: read to the
\* letter, the first put into an empty table already turns the one into the
\* other for every other key.)
C16_KeyIndependence ==
    Live =>
        \A k \in CallerKeys, j \in CallerKeys :
            hashmap_key_compare_str(j, k) # 0 =>
                /\ \A v \in Values, alloc_ok \in BOOLEAN :
                      LET r == hashmap_put(map, k, v, alloc_ok)
                      IN  r.status = HASHMAP_OK => SameGet(map, r.map, j)
                /\ LET r == hashmap_remove(map, k, TRUE)
                   IN  r.status = HASHMAP_OK => SameGet(map, r.map, j)

\* C17: a hashmap_put changes _max_size only when it found every bucket in
\* use; a put of a key that a bucket in use already holds, and a put into a
\* table with a bucket not in use, leave _max_size as it was.
C17_GrowthOnlyWhenFull ==
    (Live /\ last.op = "put" /\ map._max_size # last.pre.max_size) =>
        /\ last.pre.occupied = last.pre.max_size
        /\ ~last.pre.held

\* C18: every hashmap_put returns after at most one hashmap_rehash; a put
\* that rehashed leaves _max_size at exactly twice its value and returns
\* HASHMAP_OK, a put that did not leaves _max_size as it was, and a put
\* whose allocation (if it needs one) succeeds returns HASHMAP_OK.
C18_BoundedGrowth ==
    Live =>
        \A key \in Keys, value \in Values, alloc_ok \in BOOLEAN :
            LET r == hashmap_put(map, key, value, alloc_ok)
            IN  /\ r.rehashes \in {0, 1}
                /\ r.rehashes = 1 =>
                      /\ r.map._max_size = 2 * map._max_size
                      /\ r.status = HASHMAP_OK
                /\ r.rehashes = 0 => r.map._max_size = map._max_size
                /\ (map._cur_size # map._max_size
                        \/ Calloc(2 * map._max_size, alloc_ok)) =>
                      r.status = HASHMAP_OK

\* A put of a new key into a table with every bucket in use has rehashed
\* once, doubled _max_size, placed its key and returned HASHMAP_OK.
C18_Witness ==
    /\ PutOk
    /\ ~last.pre.held
    /\ last.pre.occupied = last.pre.max_size
    /\ last.pre.cur_size = last.pre.max_size
    /\ last.rehashes = 1
    /\ map._max_size = 2 * last.pre.max_size
    /\ Cardinality(Occupied(map)) = last.pre.occupied + 1
    /\ Holding(map, last.key) # {}

\* C19: a hashmap_rehash whose allocation succeeds returns HASHMAP_OK (every
\* re-insertion returned HASHMAP_OK, so the "corrupted state" return is not
\* taken), allocates once (no re-insertion rehashes again), has re-inserted
\* every bucket that was in use, and leaves every key of a bucket in use of
\* the old array in a bucket in use of the new one.  hashmap_rehash is called
\* by hashmap_put on a table with _cur_size = _max_size.
C19_RehashKeepsKeys ==
    (Live /\ map._cur_size = map._max_size) =>
        \A alloc_ok \in BOOLEAN :
            Calloc(2 * map._max_size, alloc_ok) =>
                LET r == hashmap_rehash(map, alloc_ok)
                IN  /\ r.status = HASHMAP_OK
                    /\ r.rehashes = 1
                    /\ r.map._cur_size = Cardinality(Occupied(map))
                    /\ \A i \in Occupied(map) :
                          Holding(r.map, map._buckets[i]._key) # {}

\* A put has rehashed a table whose two buckets held two keys, and both keys
\* are in buckets in use of the doubled array.
C19_Witness ==
    /\ Live
    /\ last.op = "put"
    /\ last.status = HASHMAP_OK
    /\ last.rehashes = 1
    /\ last.pre.occupied = 2
    /\ map._max_size = 4
    /\ \A key \in Keys : Holding(map, key) # {}
    /\ map._cur_size = last.pre.occupied + 1

\* The keys of the buckets in use, in bucket-index order.
ScanOrder(m) ==
    [n \in 1..Len(OccupiedSeq(m)) |-> m._buckets[OccupiedSeq(m)[n]]._key]

\* C20: whenever _changed is 0 and _cur_size > 0 the cached array _keys is
\* the sequence of the keys of the buckets in use, in bucket-index order; a
\* hashmap_keys call that returns HASHMAP_OK returns that sequence, and so
\* does a second hashmap_keys call made right after it.
C20_KeyCacheFresh ==
    /\ (Live /\ map._changed = 0 /\ map._cur_size > 0) =>
          map._keys = ScanOrder(map)
    /\ (Live /\ last.op = "keys" /\ last.status = HASHMAP_OK) =>
          /\ last.keys = ScanOrder(map)
          /\ \A alloc_ok \in BOOLEAN :
                LET r == hashmap_keys(map, alloc_ok)
                IN  r.status = HASHMAP_OK /\ r.keys = last.keys

\* C21: a hashmap_get that returns (HASHMAP_OK, HASHMAP_NOT_FOUND or
\* HASHMAP_EMPTY) leaves the whole struct as it was: every bucket's _key,
\* _value and _in_use, _cur_size, _max_size, _changed and _keys; and when it
\* does not return HASHMAP_OK it does not write *value.
C21_GetReadOnly ==
    [][(handle = "live" /\ handle' = "live" /\ last'.op = "get") =>
          /\ last'.status \in {HASHMAP_OK, HASHMAP_NOT_FOUND, HASHMAP_EMPTY}
          /\ map' = map
          /\ last'.status # HASHMAP_OK => (~last'.wrote /\ last'.out = NULL)]_vars

\* A get has found its key in a table whose key cache is built and clean,
\* and the key is still stored, the count and the cache as they were.
C21_Witness ==
    /\ Live
    /\ last.op = "get"
    /\ last.status = HASHMAP_OK
    /\ last.wrote
    /\ last.pre.changed = 0
    /\ map._changed = 0
    /\ map._keys # <<>>
    /\ Holding(map, last.key) # {}
    /\ map._cur_size = last.pre.cur_size
    /\ Cardinality(Occupied(map)) = last.pre.occupied
====
